---- MODULE Spec2Model ----
(***************************************************************************)
(* Icon themes and labels of the workbench: the label provider             *)
(* (core/src/browser/label-provider.ts) and the plugin icon theme with its *)
(* service (plugin-ext/src/main/browser/plugin-icon-theme-service.ts).     *)
(*                                                                         *)
(* Three specifications share the operators below:                         *)
(*   SpecLabel  the label provider as a function of its contributions;     *)
(*   SpecTheme  stylesheet synthesis and icon classes of a theme document; *)
(*   SpecLife   activation, loading and disposal of a registered theme.    *)
(***************************************************************************)
EXTENDS Integers, Sequences, FiniteSets, TLC

VARIABLES
    cssEscape,      \* the browser has CSS.escape
    json,           \* the theme document that load reads
    element,        \* the element a label is asked for
    contributions,  \* what the contributions g1 and g2 answer for the element
    current,        \* iconThemeService.current
    result,         \* the operation applied to the inputs, with what it returned
    theme,          \* the PluginIconTheme that register creates
    initialized,    \* LabelProvider.initialize has run
    head,           \* the style elements in document.head
    lastStep,       \* the last operation, with the events fired during it
    extension,      \* props.extension of the install button
    button,         \* the button as createButtons rendered it last
    clicks,         \* the number of clicks on the button
    serviceLog      \* the calls of props.service and the resets of busy, in order

\* JavaScript's undefined where a string is expected.
Undefined == "<undefined>"

\* A value that may be missing and is no string: None, or Some(value).
None == <<>>
Some(value) == <<value>>
Get(option) == option[1]

(***************************************************************************)
(* Strings.  A name is a sequence of one-character strings, so that        *)
(* toLowerCase, indexOf, split and the CSS escape can be computed; Text    *)
(* turns it into the string that ends up in a class name.                  *)
(***************************************************************************)
MaxKeyLen == 2
MaxNameLen == 2

Chars == {"a", "A", "."}

Range(seq) == {seq[i] : i \in DOMAIN seq}

RECURSIVE Text(_)
Text(s) == IF s = <<>> THEN "" ELSE Head(s) \o Text(Tail(s))

StringsUpTo(n) == UNION {[1..k -> Chars] : k \in 1..n}

\* String.prototype.toLowerCase on one character.
LowerChar(c) == IF c = "A" THEN "a" ELSE c

toLowerCase(s) == [i \in DOMAIN s |-> LowerChar(s[i])]

\* String.prototype.indexOf('.'), 1-based; 0 stands for -1.
IndexOfDot(s) ==
    IF \E i \in DOMAIN s : s[i] = "."
    THEN CHOOSE i \in DOMAIN s : s[i] = "." /\ \A j \in 1..(i - 1) : s[j] # "."
    ELSE 0

\* String.prototype.split('.'): "" splits into [""].
RECURSIVE Split(_)
Split(s) ==
    LET i == IndexOfDot(s)
    IN  IF i = 0 THEN <<s>>
        ELSE <<SubSeq(s, 1, i - 1)>> \o Split(SubSeq(s, i + 1, Len(s)))

\* Array.prototype.join('.').
RECURSIVE Join(_)
Join(segments) ==
    IF Len(segments) = 0 THEN <<>>
    ELSE IF Len(segments) = 1 THEN segments[1]
    ELSE segments[1] \o <<".">> \o Join(Tail(segments))

IsAlnum(c) == c \in {"a", "A", "b", "B", "1", "u", "n", "k", "o", "w"}
IsDigitOrDash(c) == c \in {"1", "-"}

\* CSS.escape: a character that is no identifier character gets a backslash;
\* a leading digit is written as a code point escape, a lone '-' is escaped.
CssEscapeChar(s, i) ==
    LET c == s[i]
    IN  IF c = "1" /\ (i = 1 \/ (i = 2 /\ s[1] = "-")) THEN "\\31 "
        ELSE IF c = "-" /\ i = 1 /\ Len(s) = 1 THEN "\\-"
        ELSE IF IsAlnum(c) \/ c = "-" THEN c
        ELSE "\\" \o c

\* The catch branch: value.replace(/[^\-a-zA-Z0-9]/g, '-'), then a '-' in front
\* of a leading digit or '-'.
FallbackEscape(s) ==
    LET replaced == [i \in DOMAIN s |-> IF IsAlnum(s[i]) \/ s[i] = "-" THEN s[i] ELSE "-"]
    IN  IF Len(replaced) > 0 /\ IsDigitOrDash(replaced[1])
        THEN <<"-">> \o replaced
        ELSE replaced

\* escapeCSS(value); supported says whether the browser has CSS.escape.
escapeCSS(supported, s) ==
    IF supported THEN Text([i \in DOMAIN s |-> CssEscapeChar(s, i)])
    ELSE Text(FallbackEscape(s))

(***************************************************************************)
(* PluginIconTheme: class names.  cssEscape is the browser's capability:   *)
(* TRUE when CSS.escape exists, FALSE when escapeCSS takes its catch       *)
(* branch.                                                                 *)
(***************************************************************************)
fileIcon == "theia-plugin-file-icon"
folderIcon == "theia-plugin-folder-icon"
folderExpandedIcon == "theia-plugin-folder-expanded-icon"
rootFolderIcon == "theia-plugin-root-folder-icon"
rootFolderExpandedIcon == "theia-plugin-root-folder-expanded-icon"

\* folderNameIcon without the toLowerCase.
folderNameIconKeepingCase(folderName) ==
    "theia-plugin-" \o escapeCSS(cssEscape, folderName) \o "-folder-name-icon"

folderNameIcon(folderName) ==
    "theia-plugin-" \o escapeCSS(cssEscape, toLowerCase(folderName)) \o "-folder-name-icon"

expandedFolderNameIcon(folderName) ==
    "theia-plugin-" \o escapeCSS(cssEscape, toLowerCase(folderName)) \o "-expanded-folder-name-icon"

\* One class per suffix of the dot-separated segments, then the extra class.
fileExtensionIcon(fileExtension) ==
    LET segments == Split(fileExtension)
    IN  [i \in 1..Len(segments) |->
            "theia-plugin-"
                \o escapeCSS(cssEscape, Join(SubSeq(segments, i, Len(segments))))
                \o "-ext-file-icon"]
        \o <<"theia-plugin-ext-file-icon">>

fileNameIcon(fileName) ==
    LET lower == toLowerCase(fileName)
        extIndex == IndexOfDot(lower)
        icons == IF extIndex # 0
                 THEN fileExtensionIcon(SubSeq(lower, extIndex + 1, Len(lower)))
                 ELSE <<>>
    IN  <<"theia-plugin-" \o escapeCSS(cssEscape, lower) \o "-file-name-icon">> \o icons

languageIcon(languageId) ==
    "theia-plugin-" \o escapeCSS(cssEscape, languageId) \o "-lang-file-icon"

(***************************************************************************)
(* collectSelectors.  An association table is None or Some sequence of     *)
(* <<key, definitionId>> in document order (the order of for..in); a       *)
(* selector is the sequence of the classes of a compound selector          *)
(* '.c1.c2...'.  The result lists the accept(definitionId, selector)       *)
(* calls in order.                                                         *)
(***************************************************************************)
Accept(definitionId, classes) == [definitionId |-> definitionId, classes |-> classes]

AcceptIf(definitionId, classes) ==
    IF definitionId # Undefined THEN <<Accept(definitionId, classes)>> ELSE <<>>

Or(a, b) == IF a # Undefined THEN a ELSE b

ForIn(table, classesOf(_)) ==
    IF table = None THEN <<>>
    ELSE [i \in DOMAIN Get(table) |-> Accept(Get(table)[i][2], classesOf(Get(table)[i][1]))]

FolderNameClasses(folderName) == <<folderNameIcon(folderName), folderIcon>>
ExpandedFolderNameClasses(folderName) == <<expandedFolderNameIcon(folderName), folderExpandedIcon>>
FileNameClasses(fileName) == fileNameIcon(fileName) \o <<fileIcon>>
FileExtensionClasses(fileExtension) == fileExtensionIcon(fileExtension) \o <<fileIcon>>
LanguageClasses(languageId) == <<languageIcon(languageId), fileIcon>>

\* The loop over languageIds is guarded by fileExtensions (line 367).
LanguageSelectors(associations) ==
    IF associations.fileExtensions # None
    THEN ForIn(associations.languageIds, LanguageClasses)
    ELSE <<>>

collectSelectors(associations) ==
    AcceptIf(associations.folder, <<folderIcon>>)
    \o AcceptIf(associations.folderExpanded, <<folderExpandedIcon>>)
    \o AcceptIf(Or(associations.rootFolder, associations.folder), <<rootFolderIcon>>)
    \o AcceptIf(Or(associations.rootFolderExpanded, associations.folderExpanded),
                <<rootFolderExpandedIcon>>)
    \o AcceptIf(associations.file, <<fileIcon>>)
    \o ForIn(associations.folderNames, FolderNameClasses)
    \o ForIn(associations.folderNamesExpanded, ExpandedFolderNameClasses)
    \o ForIn(associations.fileNames, FileNameClasses)
    \o ForIn(associations.fileExtensions, FileExtensionClasses)
    \o LanguageSelectors(associations)

(***************************************************************************)
(* load.  The theme document (document) is a record: iconDefinitions is None   *)
(* or Some function from definition ids to icon definitions, dark holds    *)
(* the document's own associations, light and highContrast are None or     *)
(* Some associations, fonts is a sequence of fonts (empty when the         *)
(* document has none).  A path is a sequence of segments, empty when       *)
(* missing.                                                                *)
(***************************************************************************)
pluginId == "p"
packagePath == <<"plugins", "p">>
themeUri == <<"plugins", "p", "themes", "theme.document">>

\* new URI(this.uri).parent
locationUri == SubSeq(themeUri, 1, Len(themeUri) - 1)

\* Path.normalize: '..' drops the segment before it.
RECURSIVE Normalize(_, _)
Normalize(done, rest) ==
    IF rest = <<>> THEN done
    ELSE IF Head(rest) = ".."
         THEN Normalize(IF done = <<>> THEN <<>> ELSE SubSeq(done, 1, Len(done) - 1), Tail(rest))
         ELSE Normalize(Append(done, Head(rest)), Tail(rest))

\* Path.relative: the rest of path below base, empty when it is not below.
Relative(base, path) ==
    IF Len(path) > Len(base) /\ SubSeq(path, 1, Len(base)) = base
    THEN SubSeq(path, Len(base) + 1, Len(path))
    ELSE <<>>

\* encodeURIComponent of the segments joined by '/'.
RECURSIVE EncodePath(_)
EncodePath(path) ==
    IF Len(path) = 1 THEN path[1]
    ELSE path[1] \o "%2F" \o EncodePath(Tail(path))

toCSSUrl(iconPath) ==
    IF iconPath = <<>> THEN Undefined
    ELSE LET relativePath == Relative(packagePath, Normalize(<<>>, locationUri \o iconPath))
         IN  IF relativePath = <<>> THEN Undefined
             ELSE "url('hostedPlugin/" \o pluginId \o "/" \o EncodePath(relativePath) \o "')"

\* acceptSelector: a selector of an unknown definition is dropped; the others
\* carry their theme type ('.theia-light ', '.theia-hc ' in front).
acceptSelector(iconDefinitions, themeType, accepted) ==
    SelectSeq([i \in DOMAIN accepted |->
                  [definitionId |-> accepted[i].definitionId,
                   themeType |-> themeType,
                   classes |-> accepted[i].classes]],
              LAMBDA a : a.definitionId \in DOMAIN iconDefinitions)

AllSelectors(document) ==
    acceptSelector(Get(document.iconDefinitions), "dark", collectSelectors(document.dark))
    \o (IF document.light # None
        THEN acceptSelector(Get(document.iconDefinitions), "light", collectSelectors(Get(document.light)))
        ELSE <<>>)
    \o (IF document.highContrast # None
        THEN acceptSelector(Get(document.iconDefinitions), "hc",
                            collectSelectors(Get(document.highContrast)))
        ELSE <<>>)

\* The keys of definitionSelectors in insertion order.
RECURSIVE DefinitionOrder(_, _)
DefinitionOrder(selectors, seen) ==
    IF selectors = <<>> THEN seen
    ELSE LET id == Head(selectors).definitionId
         IN  DefinitionOrder(Tail(selectors),
                             IF \E i \in DOMAIN seen : seen[i] = id THEN seen ELSE Append(seen, id))

SelectorsOf(selectors, definitionId) ==
    LET mine == SelectSeq(selectors, LAMBDA a : a.definitionId = definitionId)
    IN  [i \in DOMAIN mine |-> [themeType |-> mine[i].themeType, classes |-> mine[i].classes]]

\* The src of a @font-face: the sources that have a path with a CSS url.
FontSrc(font) ==
    LET usable == SelectSeq(font.src, LAMBDA l : toCSSUrl(l.path) # Undefined)
    IN  [i \in DOMAIN usable |-> [url |-> toCSSUrl(usable[i].path), format |-> usable[i].format]]

FontRules(fonts) ==
    IF fonts = <<>> THEN <<>>
    ELSE LET withSrc == SelectSeq(fonts, LAMBDA f : FontSrc(f) # <<>>)
         IN  [i \in DOMAIN withSrc |->
                 [kind |-> "font-face", src |-> FontSrc(withSrc[i]), family |-> withSrc[i].id,
                  weight |-> withSrc[i].weight, style |-> withSrc[i].style]]
             \o (IF Len(fonts) > 0 /\ fonts[1].id # Undefined
                 THEN <<[kind |-> "font-default", family |-> fonts[1].id,
                         size |-> Or(fonts[1].size, "150%")]>>
                 ELSE <<>>)

\* The rules of one definition: the icon rule when it has a CSS url, the
\* '::before' rule when it has a font character or a font colour.
DefinitionRules(iconDefinition, definitionId, selectors) ==
    (IF toCSSUrl(iconDefinition.iconPath) # Undefined
     THEN <<[kind |-> "icon", definitionId |-> definitionId, selectors |-> selectors,
             image |-> toCSSUrl(iconDefinition.iconPath)]>>
     ELSE <<>>)
    \o (IF iconDefinition.fontCharacter # Undefined \/ iconDefinition.fontColor # Undefined
        THEN <<[kind |-> "before", definitionId |-> definitionId, selectors |-> selectors,
                color |-> iconDefinition.fontColor, content |-> iconDefinition.fontCharacter,
                fontSize |-> iconDefinition.fontSize, fontFamily |-> iconDefinition.fontId]>>
        ELSE <<>>)

RECURSIVE Flatten(_)
Flatten(seqs) == IF seqs = <<>> THEN <<>> ELSE Head(seqs) \o Flatten(Tail(seqs))

\* this.styleSheetContent once load has run to its end: a sequence of rules,
\* '' being the empty sequence.
StyleSheet(document) ==
    IF document.iconDefinitions = None THEN <<>>
    ELSE LET selectors == AllSelectors(document)
             order == DefinitionOrder(selectors, <<>>)
         IN  FontRules(document.fonts)
             \o Flatten([i \in DOMAIN order |->
                    DefinitionRules(Get(document.iconDefinitions)[order[i]], order[i],
                                    SelectorsOf(selectors, order[i]))])

(***************************************************************************)
(* Elements.  kind is "uri" (a URI), "stat" (a FileStat), "node" (a        *)
(* FileStatNode of a file), "dir" (a DirNode), "root" (a WorkspaceRootNode)*)
(* or "other" (any other object).  base is the last segment of the path of *)
(* the element's URI, language is the language the mode service finds for  *)
(* a file.                                                                 *)
(***************************************************************************)
Element(kind, scheme, base, isDirectory, expanded, language) ==
    [kind |-> kind, scheme |-> scheme, base |-> base, isDirectory |-> isDirectory,
     expanded |-> expanded, language |-> language]

\* uri.path.ext is not empty: the base has a dot.
HasExt(e) == IndexOfDot(e.base) # 0

IsURI(e) == e.kind = "uri"
IsFileStat(e) == e.kind = "stat"
IsFileStatNode(e) == e.kind \in {"node", "dir", "root"}
IsDirNode(e) == e.kind \in {"dir", "root"}
IsWorkspaceRootNode(e) == e.kind = "root"

(***************************************************************************)
(* PluginIconTheme.getIcon.  name is what labelProvider.getName(element)   *)
(* returns; the result is the sequence of the classes of the returned      *)
(* class list.                                                             *)
(***************************************************************************)
getFolderIcon(name) == <<folderIcon, folderNameIcon(name)>>

getFileIcon(name, language) == <<fileIcon>> \o fileNameIcon(name) \o <<languageIcon(language)>>

ThemeGetIcon(e, name) ==
    IF IsWorkspaceRootNode(e)
    THEN IF e.expanded
         THEN <<rootFolderExpandedIcon, expandedFolderNameIcon(name)>>
         ELSE <<rootFolderIcon, folderNameIcon(name)>>
    ELSE IF IsDirNode(e)
    THEN IF e.expanded
         THEN <<folderExpandedIcon, expandedFolderNameIcon(name)>>
         ELSE getFolderIcon(name)
    ELSE IF IsFileStatNode(e) THEN getFileIcon(name, e.language)
    ELSE IF IsFileStat(e)
    THEN IF e.isDirectory THEN getFolderIcon(name) ELSE getFileIcon(name, e.language)
    ELSE IF ~HasExt(e) THEN getFolderIcon(name)
    ELSE getFileIcon(name, e.language)

(***************************************************************************)
(* The theme documents and the elements that SpecTheme draws its inputs    *)
(* from.                                                                   *)
(***************************************************************************)
NoAssociations ==
    [folder |-> Undefined, folderExpanded |-> Undefined, rootFolder |-> Undefined,
     rootFolderExpanded |-> Undefined, file |-> Undefined, folderNames |-> None,
     folderNamesExpanded |-> None, fileNames |-> None,
     fileExtensions |-> None, languageIds |-> None]

Tables == {"folderNames", "folderNamesExpanded", "fileNames", "fileExtensions", "languageIds"}

IconDefinition ==
    [iconPath |-> <<"icons", "x.svg">>, fontColor |-> Undefined, fontCharacter |-> Undefined,
     fontSize |-> Undefined, fontId |-> Undefined]

GlyphDefinition ==
    [iconPath |-> <<>>, fontColor |-> "#fff", fontCharacter |-> "\\E001",
     fontSize |-> Undefined, fontId |-> "f"]

IconDefinitions == Some([id \in {"_icon", "_glyph"} |-> IF id = "_icon" THEN IconDefinition ELSE GlyphDefinition])

Font == [id |-> "f", weight |-> "normal", style |-> "normal", size |-> Undefined,
         src |-> <<[path |-> <<"fonts", "f.woff">>, format |-> "woff"]>>]

\* What varies besides the table: the definition the key maps to, the section
\* that holds the table, the fonts, and whether there are icon definitions.
Variants ==
    {[definitionId |-> "_icon", section |-> "dark", fonts |-> <<>>, definitions |-> IconDefinitions],
     [definitionId |-> "_glyph", section |-> "light", fonts |-> <<Font>>, definitions |-> IconDefinitions],
     [definitionId |-> "_icon", section |-> "hc", fonts |-> <<[Font EXCEPT !.src = <<>>]>>,
      definitions |-> IconDefinitions],
     [definitionId |-> "_missing", section |-> "dark", fonts |-> <<>>, definitions |-> IconDefinitions],
     [definitionId |-> "_icon", section |-> "dark", fonts |-> <<Font>>, definitions |-> None]}

\* The associations with one entry key -> definitionId in one table and, with
\* withExtensions, a fileExtensions table when the entry is in another table.
Associations(table, key, definitionId, withExtensions) ==
    [[NoAssociations EXCEPT !.fileExtensions =
            IF withExtensions THEN Some(<< <<(<<"a">>), "_icon">> >>) ELSE None]
        EXCEPT ![table] = Some(<< <<key, definitionId>> >>)]

Document(table, key, variant, withExtensions) ==
    LET own == Associations(table, key, variant.definitionId, withExtensions)
        base == [NoAssociations EXCEPT !.file = "_icon", !.folder = "_glyph"]
    IN  [iconDefinitions |-> variant.definitions,
         fonts |-> variant.fonts,
         dark |-> IF variant.section = "dark" THEN [own EXCEPT !.file = "_icon", !.folder = "_glyph"]
                  ELSE base,
         light |-> IF variant.section = "light" THEN Some(own) ELSE None,
         highContrast |-> IF variant.section = "hc" THEN Some(own) ELSE None]

\* A document whose entry is not in languageIds has a fileExtensions table; one
\* whose entry is in languageIds has it or lacks it.
Documents ==
    {Document(p[1], p[2], p[3], p[4]) :
        p \in {q \in Tables \X StringsUpTo(MaxKeyLen) \X Variants \X BOOLEAN :
                  q[1] = "languageIds" \/ q[4]}}

Languages == {<<"a">>, <<"b">>}
Bases == {<<"a">>, <<"A", ".", "a">>}

\* Elements PluginIconTheme.getIcon is declared for: URIs with and without an
\* extension, FileStats of a file and of a directory, the nodes of a file, of
\* a folder and of a workspace root.
ThemeElements ==
    {Element("uri", "file", base, FALSE, FALSE, <<"a">>) : base \in Bases}
    \cup {Element("stat", "file", <<"a">>, isDirectory, FALSE, <<"a">>) : isDirectory \in BOOLEAN}
    \cup {Element("node", "file", <<"a">>, FALSE, FALSE, language) : language \in Languages}
    \cup {Element(kind, "file", <<"a">>, TRUE, expanded, <<"a">>) :
        kind \in {"dir", "root"}, expanded \in BOOLEAN}

\* Every object a label may be asked for: also URIs of another scheme and
\* objects that are neither a URI, a FileStat nor a FileStatNode.
Elements ==
    ThemeElements
    \cup {Element("uri", "http", base, FALSE, FALSE, <<"a">>) : base \in Bases}
    \cup {Element("other", "", <<>>, FALSE, FALSE, <<"a">>)}

(***************************************************************************)
(* The label provider and its contributions.                               *)
(*                                                                         *)
(* The contributions are, in the order of getContributions(): the default  *)
(* URI contribution, the plugin icon theme service, and two others (g1,    *)
(* g2) whose answers for the element are given by the variable             *)
(* contributions: priority is what canHandle returns, and icon, name and   *)
(* longName say whether getIcon, getName and getLongName return a value.   *)
(* current is the id of the current icon theme, "none" for the theme that  *)
(* is no PluginIconTheme.                                                  *)
(*                                                                         *)
(* An icon is the sequence of the classes of a class list ('' is empty), a *)
(* name is a sequence of characters; what a contribution returns is None   *)
(* (undefined) or Some value.                                              *)
(***************************************************************************)
MaxPriority == 2

\* Number.MAX_SAFE_INTEGER is 2^53 - 1; the greatest integer of the model
\* checker stands for it, above every other priority.
MAX_SAFE_INTEGER == 2147483647

FOLDER_ICON == <<"fa", "fa-folder">>
FILE_ICON == <<"fa", "fa-file">>

GenericIds == {"g1", "g2"}
ContributionIds == <<"default", "plugin", "g1", "g2">>

CurrentIsPluginIconTheme == current # "none"

\* DefaultUriLabelProviderContribution.  fileIconsClass is what
\* fileIcons.getClassWithColor finds for the display name (None: nothing).
DefaultCanHandle(uri) == IF IsURI(uri) THEN 1 ELSE 0

DefaultGetIcon(uri, fileIconsClass) ==
    IF fileIconsClass = None
    THEN IF IndexOfDot(uri.base) = 0 THEN FOLDER_ICON ELSE FILE_ICON
    ELSE Get(fileIconsClass)

\* uri.displayName
DefaultGetName(uri) == uri.base

\* uri.path.toString()
DefaultGetLongName(uri) == <<"/">> \o uri.base

\* PluginIconThemeService.canHandle without the test of the scheme.
ServiceCanHandleAnyScheme(e) ==
    IF CurrentIsPluginIconTheme /\ (IsURI(e) \/ IsFileStat(e) \/ IsFileStatNode(e))
    THEN MAX_SAFE_INTEGER
    ELSE 0

\* PluginIconThemeService.canHandle.
ServiceCanHandle(e) ==
    IF CurrentIsPluginIconTheme
       /\ ((IsURI(e) /\ e.scheme = "file") \/ IsFileStat(e) \/ IsFileStatNode(e))
    THEN MAX_SAFE_INTEGER
    ELSE 0

\* What the contributions g1 and g2 return where they return a value.
GenericValue(id, method) ==
    IF method = "getIcon" THEN (IF id = "g1" THEN <<"g1-icon">> ELSE <<>>)
    ELSE IF method = "getName" THEN (IF id = "g1" THEN <<"A">> ELSE <<"b", ".", "A">>)
    ELSE (IF id = "g1" THEN <<"/", "g", "1">> ELSE <<>>)

GenericProvides(id, method) ==
    IF method = "getIcon" THEN contributions[id].icon
    ELSE IF method = "getName" THEN contributions[id].name
    ELSE contributions[id].longName

canHandle(id, e) ==
    IF id = "default" THEN DefaultCanHandle(e)
    ELSE IF id = "plugin" THEN ServiceCanHandle(e)
    ELSE contributions[id].priority

\* The orders a sort by descending canHandle may leave the contributions in:
\* any of the highest comes first.  The order among equal priorities is left
\* open ("It is undefined which one").
RECURSIVE SortedOrders(_, _)
SortedOrders(ids, e) ==
    IF ids = {} THEN {<<>>}
    ELSE UNION {{<<id>> \o rest : rest \in SortedOrders(ids \ {id}, e)} :
                   id \in {x \in ids : \A y \in ids : canHandle(x, e) >= canHandle(y, e)}}

\* findContribution keeping the contributions that return zero.
findContributionUnfiltered(e) == SortedOrders(Range(ContributionIds), e)

\* findContribution: Prioritizeable.prioritizeAllSync keeps the contributions
\* whose canHandle is greater than zero, highest first.
findContribution(e) ==
    SortedOrders({id \in Range(ContributionIds) : canHandle(id, e) > 0}, e)

\* The loop of getIcon, getName and getLongName: the first value that is not
\* undefined, in the order of findContribution, or the default.  asked lists
\* the contributions the loop came to.
FirstDefined(prioritized, values, default) ==
    LET defined == {i \in DOMAIN prioritized : values[i] # None}
        first == CHOOSE i \in defined : \A j \in defined : i <= j
    IN  IF defined = {}
        THEN [value |-> default, asked |-> prioritized]
        ELSE [value |-> Get(values[first]), asked |-> SubSeq(prioritized, 1, first)]

UnknownName == <<"<", "u", "n", "k", "n", "o", "w", "n", ">">>

\* contribution.getName && contribution.getName(element); the plugin icon
\* theme service has no getName and no getLongName.
NameOf(id, e) ==
    IF id = "default" THEN Some(DefaultGetName(e))
    ELSE IF id = "plugin" THEN None
    ELSE IF GenericProvides(id, "getName") THEN Some(GenericValue(id, "getName")) ELSE None

LongNameOf(id, e) ==
    IF id = "default" THEN Some(DefaultGetLongName(e))
    ELSE IF id = "plugin" THEN None
    ELSE IF GenericProvides(id, "getLongName") THEN Some(GenericValue(id, "getLongName")) ELSE None

\* LabelProvider.getName and getLongName, given the order findContribution
\* returned.
LabelGetName(prioritized, e) ==
    FirstDefined(prioritized, [i \in DOMAIN prioritized |-> NameOf(prioritized[i], e)], UnknownName)

LabelGetLongName(prioritized, e) ==
    FirstDefined(prioritized, [i \in DOMAIN prioritized |-> LongNameOf(prioritized[i], e)], <<>>)

\* PluginIconThemeService.getIcon: the current theme's getIcon, which asks
\* the label provider for the e's name; undefined when the current
\* theme is no PluginIconTheme.
ServiceGetIcon(prioritized, e) ==
    IF CurrentIsPluginIconTheme
    THEN Some(ThemeGetIcon(e, LabelGetName(prioritized, e).value))
    ELSE None

IconOf(id, e, prioritized, fileIconsClass) ==
    IF id = "default" THEN Some(DefaultGetIcon(e, fileIconsClass))
    ELSE IF id = "plugin" THEN ServiceGetIcon(prioritized, e)
    ELSE IF GenericProvides(id, "getIcon") THEN Some(GenericValue(id, "getIcon")) ELSE None

LabelGetIcon(prioritized, e, fileIconsClass) ==
    FirstDefined(prioritized,
               [i \in DOMAIN prioritized |-> IconOf(prioritized[i], e, prioritized, fileIconsClass)],
               <<>>)

\* LabelProvider.affects that asks the hooks only, not the event.
affectsByHooksOnly(prioritized, eventAffects, hooks) ==
    LET hits == {i \in DOMAIN prioritized : hooks[prioritized[i]] = "true"}
        first == CHOOSE i \in hits : \A j \in hits : i <= j
        visited == IF hits = {} THEN prioritized ELSE SubSeq(prioritized, 1, first)
    IN  [value |-> hits # {},
         consulted |-> SelectSeq(visited, LAMBDA id : hooks[id] # "none")]

\* LabelProvider.affects(element, event).  eventAffects is event.affects(element);
\* hooks gives, for each contribution, "none" when it has no affects hook and
\* else what the hook returns for the element and the event.  consulted lists
\* the contributions whose hook was called.
affects(prioritized, eventAffects, hooks) ==
    IF eventAffects THEN [value |-> TRUE, consulted |-> <<>>]
    ELSE LET hits == {i \in DOMAIN prioritized : hooks[prioritized[i]] = "true"}
             first == CHOOSE i \in hits : \A j \in hits : i <= j
             visited == IF hits = {} THEN prioritized ELSE SubSeq(prioritized, 1, first)
         IN  [value |-> hits # {},
              consulted |-> SelectSeq(visited, LAMBDA id : hooks[id] # "none")]

(***************************************************************************)
(* The life of a registered theme.                                         *)
(*                                                                         *)
(* theme.reg is "none" before PluginIconThemeService.register, then        *)
(* "registered", and "disposed" once the disposable register returned is   *)
(* disposed; listener says whether the service listens to the theme's      *)
(* onDidChange, inRegistry whether the icon theme service holds the theme, *)
(* disposed whether the theme's emitter is disposed.  An activation is one *)
(* call of activate(): toDeactivate lists the disposables of its           *)
(* collection (a collection is disposed when it is empty), pc is where its *)
(* doActivate stands: "reading" (its load awaits the document), "ready"    *)
(* (load returned, the rest of doActivate has not run yet), "done",        *)
(* "failed" (load threw).  A style element is named by the activation that *)
(* created it.                                                             *)
(***************************************************************************)
MaxActivations == 2

NoTheme ==
    [reg |-> "none", disposed |-> FALSE, listener |-> FALSE, inRegistry |-> FALSE,
     styleSheetContent |-> None, activations |-> <<>>]

NoStep == [op |-> "none", activation |-> 0, themeEvents |-> <<>>, serviceEvents |-> <<>>,
           labelEvents |-> <<>>]

\* The install button where none is shown.
NoExtension == [busy |-> FALSE, installed |-> FALSE, outdated |-> FALSE]

NoButton == [key |-> "", className |-> "", content |-> ""]

(***************************************************************************)
(* SpecTheme: the theme document is an input; load and getIcon are applied.*)
(***************************************************************************)
NotCalled == [op |-> "none"]

NoContributions == [id \in GenericIds |-> [priority |-> 0, icon |-> FALSE, name |-> FALSE,
                                           longName |-> FALSE]]

ThemeInit ==
    /\ cssEscape \in BOOLEAN
    /\ json \in Documents
    /\ element = Element("other", "", <<>>, FALSE, FALSE, <<"a">>)
    /\ contributions = NoContributions
    /\ current = "t1"
    /\ result = NotCalled
    /\ theme = NoTheme
    /\ initialized = FALSE
    /\ head = {}
    /\ lastStep = NoStep
    /\ extension = NoExtension
    /\ button = NoButton
    /\ clicks = 0
    /\ serviceLog = <<>>

\* load(): the document is read and the stylesheet synthesized.
Load ==
    /\ result = NotCalled
    /\ result' = [op |-> "load", styleSheetContent |-> StyleSheet(json)]
    /\ UNCHANGED <<cssEscape, json, element, contributions, current>>
    /\ UNCHANGED <<theme, initialized, head, lastStep, extension, button, clicks, serviceLog>>

\* getIcon(element) of the theme; name is what the label provider returns as
\* the name of the element.
GetIcon ==
    /\ result = NotCalled
    /\ \E e \in ThemeElements, name \in StringsUpTo(MaxNameLen) :
          result' = [op |-> "getIcon", element |-> e, name |-> name,
                     icon |-> ThemeGetIcon(e, name)]
    /\ UNCHANGED <<cssEscape, json, element, contributions, current>>
    /\ UNCHANGED <<theme, initialized, head, lastStep, extension, button, clicks, serviceLog>>

ThemeNext == Load \/ GetIcon

vars == <<cssEscape, json, element, contributions, current, result, theme, initialized, head,
          lastStep, extension, button, clicks, serviceLog>>

SpecTheme == ThemeInit /\ [][ThemeNext]_vars

(***************************************************************************)
(* Claims about the stylesheet and the icon classes (SpecTheme).           *)
(***************************************************************************)
\* The association sections of a document with their theme types.
Sections(document) ==
    {[themeType |-> "dark", associations |-> document.dark]}
    \cup (IF document.light # None
          THEN {[themeType |-> "light", associations |-> Get(document.light)]} ELSE {})
    \cup (IF document.highContrast # None
          THEN {[themeType |-> "hc", associations |-> Get(document.highContrast)]} ELSE {})

\* The <<key, definitionId>> entries of a table whose definition exists.
DefinedEntries(document, table) ==
    IF table = None \/ document.iconDefinitions = None THEN {}
    ELSE {entry \in Range(Get(table)) : entry[2] \in DOMAIN Get(document.iconDefinitions)}

EndsWith(s, suffix) ==
    Len(s) >= Len(suffix) /\ SubSeq(s, Len(s) - Len(suffix) + 1, Len(s)) = suffix

\* getIcon treats the element as a file: a FileStatNode of a file, a FileStat
\* that is no directory, a URI whose path has an extension.
IsFileElement(e) ==
    \/ e.kind = "node"
    \/ e.kind = "stat" /\ ~e.isDirectory
    \/ e.kind = "uri" /\ HasExt(e)

\* A collapsed folder that is no workspace root: a collapsed DirNode, a
\* FileStat of a directory, a URI whose path has no extension.
IsCollapsedFolderElement(e) ==
    \/ e.kind = "dir" /\ ~e.expanded
    \/ e.kind = "stat" /\ e.isDirectory
    \/ e.kind = "uri" /\ ~HasExt(e)

IsExpandedFolderElement(e) == e.kind = "dir" /\ e.expanded

\* C2 (as claimed): once load has run, every languageIds entry L -> D whose
\* definition D exists has, in a rule of D, the selector
\* '.theia-plugin-<L>-lang-file-icon.theia-plugin-file-icon', whatever other
\* tables the document has.
C2_LanguageSelectorInStyleSheet ==
    result.op = "load" =>
        \A section \in Sections(json) :
            \A entry \in DefinedEntries(json, section.associations.languageIds) :
                \E i \in DOMAIN result.styleSheetContent :
                    LET rule == result.styleSheetContent[i]
                    IN  /\ rule.kind \in {"icon", "before"}
                        /\ rule.definitionId = entry[2]
                        /\ [themeType |-> section.themeType, classes |-> LanguageClasses(entry[1])]
                               \in Range(rule.selectors)

\* C3 (as claimed): for every fileExtensions key E whose definition exists and
\* every file whose name ends with '.' + E when case is ignored, every class of
\* the selector generated for E is among the classes getIcon returns.
C3_ExtensionMatchIgnoresCase ==
    (result.op = "getIcon" /\ IsFileElement(result.element)) =>
        \A section \in Sections(json) :
            \A entry \in DefinedEntries(json, section.associations.fileExtensions) :
                EndsWith(toLowerCase(result.name), <<".">> \o toLowerCase(entry[1]))
                    => Range(FileExtensionClasses(entry[1])) \subseteq Range(result.icon)

\* The name equals the key when the case of the letters is ignored.
NameMatches(name, key) == toLowerCase(name) = toLowerCase(key)

GenericContributions ==
    [priority : 0..MaxPriority, icon : BOOLEAN, name : BOOLEAN, longName : BOOLEAN]

LabelInit ==
    /\ cssEscape = TRUE
    /\ json \in {Document("fileNames", <<"a">>, variant, TRUE) :
                    variant \in {v \in Variants : v.definitionId = "_missing"}}
    /\ element \in Elements
    /\ contributions \in [GenericIds -> GenericContributions]
    /\ current \in {"none", "t1"}
    /\ result = NotCalled
    /\ theme = NoTheme
    /\ initialized = FALSE
    /\ head = {}
    /\ lastStep = NoStep
    /\ extension = NoExtension
    /\ button = NoButton
    /\ clicks = 0
    /\ serviceLog = <<>>

\* What fileIcons.getClassWithColor may find for a display name.
FileIconsClasses == {None, Some(<<"js-icon", "medium-yellow">>)}

labelInputs == <<cssEscape, json, element, contributions, current, theme, initialized, head,
                 lastStep, extension, button, clicks, serviceLog>>

ProviderGetIcon ==
    /\ result = NotCalled
    /\ \E prioritized \in findContribution(element), fileIconsClass \in FileIconsClasses :
          LET got == LabelGetIcon(prioritized, element, fileIconsClass)
          IN  result' = [op |-> "getIcon", prioritized |-> prioritized,
                         fileIconsClass |-> fileIconsClass,
                         value |-> got.value, asked |-> got.asked]
    /\ UNCHANGED labelInputs

ProviderGetName ==
    /\ result = NotCalled
    /\ \E prioritized \in findContribution(element) :
          LET got == LabelGetName(prioritized, element)
          IN  result' = [op |-> "getName", prioritized |-> prioritized,
                         fileIconsClass |-> None,
                         value |-> got.value, asked |-> got.asked]
    /\ UNCHANGED labelInputs

ProviderGetLongName ==
    /\ result = NotCalled
    /\ \E prioritized \in findContribution(element) :
          LET got == LabelGetLongName(prioritized, element)
          IN  result' = [op |-> "getLongName", prioritized |-> prioritized,
                         fileIconsClass |-> None,
                         value |-> got.value, asked |-> got.asked]
    /\ UNCHANGED labelInputs

\* What the affects hooks of the contributions may answer for the element and
\* an event; the default contribution and the service have no such hook.
Hooks ==
    {[id \in Range(ContributionIds) |-> IF id \in GenericIds THEN h[id] ELSE "none"] :
        h \in [GenericIds -> {"none", "true", "false"}]}

\* The affects of an event the label provider forwards, asked for the element.
ProviderAffects ==
    /\ result = NotCalled
    /\ \E prioritized \in findContribution(element), eventAffects \in BOOLEAN, hooks \in Hooks :
          LET got == affects(prioritized, eventAffects, hooks)
          IN  result' = [op |-> "affects", eventAffects |-> eventAffects, hooks |-> hooks,
                         value |-> got.value, consulted |-> got.consulted]
    /\ UNCHANGED labelInputs

\* PluginIconThemeService.canHandle(element).
CanHandle ==
    /\ result = NotCalled
    /\ result' = [op |-> "canHandle", value |-> ServiceCanHandle(element)]
    /\ UNCHANGED labelInputs

\* PluginIconThemeService.getIcon(element), for an element of its declared
\* type when the current theme's getIcon gets to read it.
ServiceIcon ==
    /\ result = NotCalled
    /\ CurrentIsPluginIconTheme => element \in ThemeElements
    /\ \E prioritized \in findContribution(element) :
          result' = [op |-> "serviceGetIcon", value |-> ServiceGetIcon(prioritized, element)]
    /\ UNCHANGED labelInputs

LabelNext ==
    \/ ProviderGetIcon
    \/ ProviderGetName
    \/ ProviderGetLongName
    \/ ProviderAffects
    \/ CanHandle
    \/ ServiceIcon

SpecLabel == LabelInit /\ [][LabelNext]_vars

(***************************************************************************)
(* Claims about the label provider and the service (SpecLabel).            *)
(***************************************************************************)
\* What the contribution returns for the method that was applied.
Returned(id) ==
    IF result.op = "getIcon" THEN IconOf(id, element, result.prioritized, result.fileIconsClass)
    ELSE IF result.op = "getName" THEN NameOf(id, element)
    ELSE LongNameOf(id, element)

DefaultResult == IF result.op = "getName" THEN UnknownName ELSE <<>>

\* The contributions that handle the element and return a defined value.
Candidates == {id \in Range(ContributionIds) : canHandle(id, element) > 0 /\ Returned(id) # None}

\* C1: getIcon, getName and getLongName return the value of a contribution
\* with the highest canHandle among those whose canHandle is positive and
\* whose value is defined; no contribution whose canHandle is zero is asked;
\* without such a contribution the result is '', '<unknown>' and ''.
C1_HighestDefinedContributionWins ==
    result.op \in {"getIcon", "getName", "getLongName"} =>
        /\ Candidates = {} => result.value = DefaultResult
        /\ Candidates # {} =>
              \E id \in Candidates :
                  /\ \A other \in Candidates : canHandle(id, element) >= canHandle(other, element)
                  /\ result.value = Get(Returned(id))
        /\ \A id \in Range(result.asked) : canHandle(id, element) > 0

\* getName of a URI: g1 handles it with the highest priority and has no name,
\* g2 has a name and does not handle it, so the default contribution's name
\* is returned.
C1_Witness ==
    /\ result.op = "getName"
    /\ IsURI(element)
    /\ current = "none"
    /\ contributions["g1"].priority = MaxPriority /\ ~contributions["g1"].name
    /\ contributions["g2"].priority = 0 /\ contributions["g2"].name
    /\ result.value = element.base
    /\ result.asked = <<"g1", "default">>

\* C6: canHandle returns MAX_SAFE_INTEGER exactly when the current theme is a
\* PluginIconTheme and the element is a URI of scheme 'file', a FileStat or a
\* FileStatNode, and 0 otherwise; getIcon returns undefined whenever the
\* current theme is no PluginIconTheme.
C6_ServiceHandlesFilesOfPluginTheme ==
    /\ result.op = "canHandle" =>
          LET fileLike == \/ element.kind = "uri" /\ element.scheme = "file"
                          \/ element.kind = "stat"
                          \/ element.kind \in {"node", "dir", "root"}
          IN  /\ result.value \in {0, MAX_SAFE_INTEGER}
              /\ result.value = MAX_SAFE_INTEGER <=> (current # "none" /\ fileLike)
    /\ (result.op = "serviceGetIcon" /\ current = "none") => result.value = None

\* canHandle was asked for a URI of another scheme while a plugin icon theme
\* is current.
C6_Witness ==
    /\ result.op = "canHandle"
    /\ current # "none"
    /\ element.kind = "uri" /\ element.scheme = "http"
    /\ result.value = 0

\* C9: the affects of a forwarded event is true exactly when the original
\* event affects the element or a contribution that handles the element has
\* a hook that returns true; no contribution whose canHandle is zero is
\* consulted.
C9_ForwardedAffects ==
    result.op = "affects" =>
        /\ result.value <=>
              \/ result.eventAffects
              \/ \E id \in Range(ContributionIds) :
                    canHandle(id, element) > 0 /\ result.hooks[id] = "true"
        /\ \A id \in Range(result.consulted) : canHandle(id, element) > 0

\* The event does not affect the element, the hook of g1, which handles it,
\* says false, and the hook of g2, which does not handle it, says true.
C9_Witness ==
    /\ result.op = "affects"
    /\ ~result.eventAffects
    /\ contributions["g1"].priority > 0 /\ result.hooks["g1"] = "false"
    /\ contributions["g2"].priority = 0 /\ result.hooks["g2"] = "true"
    /\ ~result.value
    /\ result.consulted = <<"g1">>

(***************************************************************************)
(* SpecLife: a theme is registered, activated, loaded and disposed.        *)
(*                                                                         *)
(* One theme is followed.  The callers of activate() and of the returned   *)
(* disposables are free: any interleaving of the operations below with the *)
(* two ends of a load (the document arrives, the read fails) is a          *)
(* behaviour.  Each step records the events fired during it in lastStep.   *)
(***************************************************************************)
Copies(n, x) == [i \in 1..n |-> x]

\* The event of PluginIconTheme.fireDidChange, as element -> event.affects(element).
ThemeChangeEventAffectingNothing == [e \in Elements |-> FALSE]

ThemeChangeEvent == [e \in Elements |-> TRUE]

\* n calls of PluginIconTheme.fireDidChange: the events the theme's emitter
\* delivers; none once the emitter is disposed.
ThemeFire(th, n) == IF th.disposed THEN <<>> ELSE Copies(n, ThemeChangeEvent)

\* The event of PluginIconThemeService.fireDidChange.
ServiceChangeEvent == [e \in Elements |-> TRUE]

\* The listener that register attaches to the theme: one service event for each
\* event of the theme, while the listener is attached.
ServiceForwardDroppingEvents(th, themeEvents) == <<>>

ServiceForward(th, themeEvents) ==
    IF th.listener THEN [i \in DOMAIN themeEvents |-> ServiceChangeEvent] ELSE <<>>

\* The listener that LabelProvider.initialize attaches to the service: one
\* event for each service event, whose affects asks LabelProvider.affects.
LabelForward(serviceEvents) ==
    IF initialized
    THEN [i \in DOMAIN serviceEvents |->
            [e \in Elements |->
                affects(CHOOSE prioritized \in findContribution(e) : TRUE,
                        serviceEvents[i][e],
                        [id \in Range(ContributionIds) |-> "none"]).value]]
    ELSE <<>>

\* The record of a step in which the theme th called fireDidChange n times.
Step(op, activation, th, n) ==
    LET themeEvents == ThemeFire(th, n)
        serviceEvents == ServiceForward(th, themeEvents)
    IN  [op |-> op, activation |-> activation, themeEvents |-> themeEvents,
         serviceEvents |-> serviceEvents, labelEvents |-> LabelForward(serviceEvents)]

\* load() up to its first await: with styleSheetContent undefined it sets '' and
\* waits for the document (reads), else it returns at once.
load(th) ==
    IF th.styleSheetContent # None THEN [theme |-> th, reads |-> FALSE]
    ELSE [theme |-> [th EXCEPT !.styleSheetContent = Some(<<>>)], reads |-> TRUE]

\* activate() up to its return: the collection with its marker, the disposable
\* that fires on deactivation, and doActivate run up to its await.
activate(th) ==
    LET loading == load(th)
    IN  [loading.theme EXCEPT !.activations =
            Append(@, [toDeactivate |-> <<"marker", "fireDidChange">>,
                       pc |-> IF loading.reads THEN "reading" ELSE "ready",
                       styleElement |-> FALSE])]

\* doActivate after `await this.load()`, for the activation i: hd is document.head.
doActivateIgnoringDisposal(th, i, hd) ==
    [theme |-> [th EXCEPT !.activations[i].pc = "done",
                          !.activations[i].styleElement = TRUE,
                          !.activations[i].toDeactivate =
                              IF @ = <<>> THEN @ ELSE Append(@, "remove")],
     head |-> hd \cup {[activation |-> i, innerHTML |-> Get(th.styleSheetContent)]}]

doActivate(th, i, hd) ==
    IF th.activations[i].toDeactivate = <<>>
    THEN [theme |-> [th EXCEPT !.activations[i].pc = "done"], head |-> hd]
    ELSE [theme |-> [th EXCEPT !.activations[i].pc = "done",
                               !.activations[i].styleElement = TRUE,
                               !.activations[i].toDeactivate = Append(@, "remove")],
          head |-> hd \cup {[activation |-> i, innerHTML |-> Get(th.styleSheetContent)]}]

\* The number of disposables equal to d in a collection.
Count(disposables, d) == Cardinality({k \in DOMAIN disposables : disposables[k] = d})

lifeInputs == <<cssEscape, json, element, contributions, current, result, extension, button,
                clicks, serviceLog>>

\* A document with a rule to write, and one without iconDefinitions.
LifeDocuments ==
    {Document("fileNames", <<"a">>, variant, TRUE) :
        variant \in {v \in Variants : v.definitionId = "_icon" /\ v.section = "dark"}}

LifeInit ==
    /\ cssEscape = TRUE
    /\ json \in LifeDocuments
    /\ element = Element("other", "", <<>>, FALSE, FALSE, Undefined)
    /\ contributions = NoContributions
    /\ current = "t1"
    /\ result = NotCalled
    /\ theme = NoTheme
    /\ initialized = FALSE
    /\ head = {}
    /\ lastStep = NoStep
    /\ extension = NoExtension
    /\ button = NoButton
    /\ clicks = 0
    /\ serviceLog = <<>>

\* PluginIconThemeService.register: the theme is created, the service listens
\* to it, the icon theme service holds it.
Register ==
    /\ theme.reg = "none"
    /\ theme' = [theme EXCEPT !.reg = "registered", !.listener = TRUE, !.inRegistry = TRUE]
    /\ lastStep' = Step("register", 0, theme', 0)
    /\ UNCHANGED <<initialized, head>>
    /\ UNCHANGED lifeInputs

\* LabelProvider.initialize, called once by the frontend application.
Initialize ==
    /\ ~initialized
    /\ initialized' = TRUE
    /\ lastStep' = Step("initialize", 0, theme, 0)
    /\ UNCHANGED <<theme, head>>
    /\ UNCHANGED lifeInputs

\* theme.activate().
Activate ==
    /\ theme.reg # "none"
    /\ Len(theme.activations) < MaxActivations
    /\ theme' = activate(theme)
    /\ lastStep' = Step("activate", Len(theme'.activations), theme, 1)
    /\ UNCHANGED <<initialized, head>>
    /\ UNCHANGED lifeInputs

\* resolveContent returns: the load that reads runs to its end, and the
\* doActivate that awaits it may go on.
LoadReturns ==
    \E i \in DOMAIN theme.activations :
        /\ theme.activations[i].pc = "reading"
        /\ theme' = [theme EXCEPT !.styleSheetContent = Some(StyleSheet(json)),
                                  !.activations[i].pc = "ready"]
        /\ lastStep' = Step("load", i, theme, 0)
        /\ UNCHANGED <<initialized, head>>
        /\ UNCHANGED lifeInputs

\* resolveContent or the parse throws: load rejects, and so does the doActivate
\* that awaits it; styleSheetContent stays ''.
LoadThrows ==
    \E i \in DOMAIN theme.activations :
        /\ theme.activations[i].pc = "reading"
        /\ theme' = [theme EXCEPT !.activations[i].pc = "failed"]
        /\ lastStep' = Step("loadThrows", i, theme, 0)
        /\ UNCHANGED <<initialized, head>>
        /\ UNCHANGED lifeInputs

\* doActivate goes on after its await.
DoActivate ==
    \E i \in DOMAIN theme.activations :
        /\ theme.activations[i].pc = "ready"
        /\ LET after == doActivate(theme, i, head)
           IN  /\ theme' = after.theme
               /\ head' = after.head
        /\ lastStep' = Step("doActivate", i, theme, 0)
        /\ UNCHANGED initialized
        /\ UNCHANGED lifeInputs

\* dispose() of the disposable an activate() returned: its disposables are run
\* last pushed first, and the collection is empty afterwards; nothing is left
\* to run when it is disposed again.
Deactivate ==
    \E i \in DOMAIN theme.activations :
        LET toDeactivate == theme.activations[i].toDeactivate
        IN  /\ theme' = [theme EXCEPT !.activations[i].toDeactivate = <<>>]
            /\ head' = IF Count(toDeactivate, "remove") > 0
                       THEN {style \in head : style.activation # i}
                       ELSE head
            /\ lastStep' = Step("deactivate", i, theme, Count(toDeactivate, "fireDidChange"))
            /\ UNCHANGED initialized
            /\ UNCHANGED lifeInputs

\* dispose() of the disposable register returned: the icon theme service drops
\* the theme, the service's listener is removed, the theme is disposed.  A
\* deactivation the icon theme service makes while it drops the theme runs
\* with the listener attached and the theme alive, as in a Deactivate step
\* just before this one.
Unregister ==
    /\ theme.reg = "registered"
    /\ theme' = [theme EXCEPT !.reg = "disposed", !.inRegistry = FALSE, !.listener = FALSE,
                              !.disposed = TRUE]
    /\ lastStep' = Step("unregister", 0, theme, 0)
    /\ UNCHANGED <<initialized, head>>
    /\ UNCHANGED lifeInputs

\* theme.dispose() called by another holder of the theme: its emitter is
\* disposed; the registration is as it was.
Dispose ==
    /\ theme.reg # "none"
    /\ ~theme.disposed
    /\ theme' = [theme EXCEPT !.disposed = TRUE]
    /\ lastStep' = Step("dispose", 0, theme, 0)
    /\ UNCHANGED <<initialized, head>>
    /\ UNCHANGED lifeInputs

LifeNext ==
    \/ Register
    \/ Dispose
    \/ Initialize
    \/ Activate
    \/ LoadReturns
    \/ LoadThrows
    \/ DoActivate
    \/ Deactivate
    \/ Unregister

SpecLife == LifeInit /\ [][LifeNext]_vars

(***************************************************************************)
(* Claims about the life of a theme.                                       *)
(***************************************************************************)
Disposed(i) == theme.activations[i].toDeactivate = <<>>

Finished(i) == theme.activations[i].pc \in {"done", "failed"}

AffectsEveryElement(events) == \A k \in DOMAIN events : \A e \in Elements : events[k][e]

\* C5: once the disposable of an activation is disposed and the activation's
\* doActivate has finished, document.head holds no style element that the
\* activation created.
C5_NoStyleElementAfterDeactivation ==
    \A i \in DOMAIN theme.activations :
        Disposed(i) /\ Finished(i) => ~ \E style \in head : style.activation = i

\* One activation was disposed before its load had returned and has finished
\* without a style element, another was disposed after it had appended one.
C5_Witness ==
    \E i, j \in DOMAIN theme.activations :
        /\ Disposed(i) /\ theme.activations[i].pc = "done" /\ ~theme.activations[i].styleElement
        /\ Disposed(j) /\ theme.activations[j].pc = "done" /\ theme.activations[j].styleElement

\* C7: on a theme that is not disposed, activate() fires exactly one change
\* event, disposing the disposable it returned fires exactly one more the first
\* time and none when it is disposed again, and each of these events affects
\* every element.
C7_ActivationFiresOneEvent ==
    [][~theme.disposed =>
          /\ lastStep'.op = "activate" =>
                /\ Len(lastStep'.themeEvents) = 1
                /\ AffectsEveryElement(lastStep'.themeEvents)
          /\ lastStep'.op = "deactivate" =>
                /\ Len(lastStep'.themeEvents) = IF Disposed(lastStep'.activation) THEN 0 ELSE 1
                /\ AffectsEveryElement(lastStep'.themeEvents)]_vars

\* The disposable of an activation of a live theme was disposed a second time,
\* and no event was fired.
C7_Witness ==
    /\ ~theme.disposed
    /\ lastStep.op = "deactivate"
    /\ lastStep.themeEvents = <<>>
    /\ theme.activations[lastStep.activation].pc = "done"
    /\ theme.activations[lastStep.activation].styleElement

\* C8: while the registration is not disposed, the events the theme fires in a
\* step are answered by as many service events and, once the label provider is
\* initialized, by as many label provider events; once the registration is
\* disposed the theme is disposed and out of the registry, and no step fires a
\* service event.
C8_RegistrationForwardsEvents ==
    [][/\ theme.reg = "registered" =>
             /\ Len(lastStep'.serviceEvents) = Len(lastStep'.themeEvents)
             /\ initialized => Len(lastStep'.labelEvents) = Len(lastStep'.themeEvents)
       /\ theme'.reg = "disposed" => theme'.disposed /\ ~theme'.inRegistry
       /\ theme.reg = "disposed" => lastStep'.serviceEvents = <<>>]_vars

\* The registered theme fired an event after the label provider was
\* initialized, and the service and the label provider each fired one.
C8_Witness ==
    /\ theme.reg = "registered"
    /\ initialized
    /\ Len(lastStep.themeEvents) = 1
    /\ Len(lastStep.serviceEvents) = 1
    /\ Len(lastStep.labelEvents) = 1

\* C10: every style element in document.head holds the complete stylesheet
\* generated from the theme document.
C10_StyleElementHoldsStyleSheet ==
    \A style \in head : style.innerHTML = StyleSheet(json)

(***************************************************************************)
(* SpecButton: the install button of an extension is rendered and clicked. *)
(*                                                                         *)
(* The component holds no state of its own: props.extension is an object   *)
(* that the handlers write and the service resets.  The click handler      *)
(* reads the object when the click comes, so a button rendered before busy *)
(* changed still sees the busy of the moment.                              *)
(***************************************************************************)
MaxClicks == 3

\* createButtons(extension): the one button, with its key, its class names and
\* its content (the spinner while busy, else the label).
createButtons(ext) ==
    LET btnLabel == IF ext.installed THEN "Uninstall" ELSE "Install"
    IN  [key |-> "extensionDetailBtn" \o btnLabel,
         className |-> "theia-button extensionButton"
                       \o (IF ext.busy THEN " working" ELSE "") \o " "
                       \o (IF ext.installed /\ ~ext.busy THEN " installed" ELSE "") \o " "
                       \o (IF ext.outdated /\ ~ext.busy THEN " outdated" ELSE ""),
         content |-> IF ext.busy THEN "fa fa-spinner fa-pulse fa-fw" ELSE btnLabel]

\* onInstallButtonClicked: busy is set, then service.install is called.
onInstallButtonClicked(ext, log) ==
    [extension |-> [ext EXCEPT !.busy = TRUE], serviceLog |-> Append(log, "install")]

\* onUninstallButtonClicked: busy is set, then service.uninstall is called.
onUninstallButtonClicked(ext, log) ==
    [extension |-> [ext EXCEPT !.busy = TRUE], serviceLog |-> Append(log, "uninstall")]

\* The onClick of the button.
onClickIgnoringBusy(ext, log) ==
    IF ext.installed THEN onUninstallButtonClicked(ext, log)
    ELSE onInstallButtonClicked(ext, log)

onClick(ext, log) ==
    IF ~ext.busy
    THEN IF ext.installed THEN onUninstallButtonClicked(ext, log)
         ELSE onInstallButtonClicked(ext, log)
    ELSE [extension |-> ext, serviceLog |-> log]

Extensions == [busy : BOOLEAN, installed : BOOLEAN, outdated : BOOLEAN]

buttonInputs == <<cssEscape, json, element, contributions, current, result, theme, initialized,
                  head, lastStep>>

\* The component is mounted and rendered for an extension in any state.
ButtonInit ==
    /\ cssEscape = TRUE
    /\ json \in {d \in LifeDocuments : d.iconDefinitions # None}
    /\ element = Element("other", "", <<>>, FALSE, FALSE, Undefined)
    /\ contributions = NoContributions
    /\ current = "none"
    /\ result = NotCalled
    /\ theme = NoTheme
    /\ initialized = FALSE
    /\ head = {}
    /\ lastStep = NoStep
    /\ extension \in Extensions
    /\ button = createButtons(extension)
    /\ clicks = 0
    /\ serviceLog = <<>>

\* render(), when the view shows the extension anew.
Render ==
    /\ button # createButtons(extension)
    /\ button' = createButtons(extension)
    /\ UNCHANGED <<extension, clicks, serviceLog>>
    /\ UNCHANGED buttonInputs

\* A click on the button.
Click ==
    /\ clicks < MaxClicks
    /\ clicks' = clicks + 1
    /\ LET after == onClick(extension, serviceLog)
       IN  /\ extension' = after.extension
           /\ serviceLog' = after.serviceLog
    /\ UNCHANGED button
    /\ UNCHANGED buttonInputs

\* The service ends what it was doing for the extension: busy is reset, and
\* the extension is installed or not, outdated or not, as the service found.
ServiceResetsBusy ==
    /\ extension.busy
    /\ \E installed \in BOOLEAN, outdated \in BOOLEAN :
          extension' = [busy |-> FALSE, installed |-> installed, outdated |-> outdated]
    /\ serviceLog' = Append(serviceLog, "reset")
    /\ UNCHANGED <<button, clicks>>
    /\ UNCHANGED buttonInputs

ButtonNext ==
    \/ Render
    \/ Click
    \/ ServiceResetsBusy

SpecButton == ButtonInit /\ [][ButtonNext]_vars

(***************************************************************************)
(* Claims about the install button.                                        *)
(***************************************************************************)
ServiceCalls == {"install", "uninstall"}

\* C11: a click while busy calls neither service.install nor
\* service.uninstall; a click while not busy sets busy and calls exactly one of
\* them, uninstall for an installed extension and install otherwise; and no
\* two calls of the service follow each other without a reset of busy between
\* them.
C11_OneServiceCallWhileBusy ==
    [][/\ clicks' = clicks + 1 =>
             IF extension.busy
             THEN serviceLog' = serviceLog
             ELSE /\ extension'.busy
                  /\ serviceLog' = Append(serviceLog, IF extension.installed THEN "uninstall"
                                                      ELSE "install")
       /\ \A k \in DOMAIN serviceLog' :
             k > 1 /\ serviceLog'[k] \in ServiceCalls => serviceLog'[k - 1] = "reset"]_vars

\* The button called the service, was clicked again while busy, and called the
\* service again after busy was reset.
C11_Witness ==
    /\ Len(serviceLog) = 3
    /\ serviceLog[1] \in ServiceCalls
    /\ serviceLog[2] = "reset"
    /\ serviceLog[3] \in ServiceCalls
    /\ clicks = 3
    /\ extension.busy

====
